---- MODULE Spec2Model ----
(***************************************************************************)
(* Device-side provisioning handshake, hub session and telemetry tick of   *)
(* firmware/sketch_github.ino.                                             *)
(*                                                                         *)
(* Text (Arduino String) is a sequence of symbols: a punctuation character *)
(* is one symbol, a word of unreserved characters (a key name, a host      *)
(* name, an identifier) is one symbol.  Indices are 0-based as in the      *)
(* source.                                                                 *)
(***************************************************************************)
EXTENDS Integers, Sequences, FiniteSets, TLC

\* ------------------------------------------------------------------ bounds
\* The longest one slice of a busy-wait loop is taken to last (ms).
StepMs == 10000
\* How many request ids behind the outstanding one a service reply may be.
StaleWindow == 1
\* The model stops the clock here (ms since boot): past every handshake and
\* past one token lifetime of the hub session.
MaxNowMs == 4000000
\* How many calls of loop() the model follows one by one after a boot.
MaxTicks == 3
\* How long a call of loop() that is not the interval's is taken to last (ms).
ShortMs == 500
\* The largest raw reading of the small calibrations followed.
MaxRaw == 6
\* How many pieces the texts handed to jsonGet are put together from.
MaxChunks == 5

\* ------------------------------------------------- configuration constants
DPS_ID_SCOPE == <<"scope1">>
DPS_REGISTRATION_ID == <<"reg1">>
KeyGood == "a2V5"
KeyBad == "  ="
DPS_HOST == <<"global.azure-devices-provisioning.net">>
SAS_TTL_SECS == 60 * 60
REG_TIMEOUT_MS == 20000
POLL_TIMEOUT_MS == 5000
POLL_BACKOFF_MS == 1500
MAX_POLLS == 20
DPS_BUFFER == 2048
HUB_BUFFER == 512
SEND_INTERVAL_MS == 5000
RETRY_DELAY_MS == 2000
\* Epoch seconds at boot: syncTime() waits for the clock to pass this value.
BootEpoch == 1700000000

Empty == << >>

Max(a, b) == IF a > b THEN a ELSE b
Min(a, b) == IF a < b THEN a ELSE b

\* ------------------------------------------------------- String primitives
\* String::indexOf(patt, from): least 0-based index >= from where patt
\* occurs, -1 when there is none.
\* (The set of hits is bound, not defined, so that it is computed once.)
IndexOf(s, patt, from) ==
    CHOOSE r \in { IF hits = {} THEN -1
                   ELSE CHOOSE i \in hits : \A j \in hits : i <= j :
                   hits \in { { i \in from .. (Len(s) - Len(patt)) :
                                  SubSeq(s, i + 1, i + Len(patt)) = patt } } } : TRUE

\* String::substring(left, right): symbols left .. right-1, the two swapped
\* when left > right, right clamped to the length, empty when left is at or
\* past the end.
Substring(s, left, right) ==
    LET lo == Min(left, right)
        hi == Max(left, right)
    IN  IF lo >= Len(s) THEN Empty
        ELSE SubSeq(s, lo + 1, Min(hi, Len(s)))

\* ------------------------------------------------------ Response extraction
Digit == [c \in {"0", "1", "2", "3", "4", "5", "6", "7", "8", "9"} |->
            CASE c = "0" -> 0 [] c = "1" -> 1 [] c = "2" -> 2 [] c = "3" -> 3
              [] c = "4" -> 4 [] c = "5" -> 5 [] c = "6" -> 6 [] c = "7" -> 7
              [] c = "8" -> 8 [] c = "9" -> 9]

\* String::toInt(): the value of the leading decimal digits, 0 when none.
RECURSIVE ToIntFrom(_, _)
ToIntFrom(s, acc) ==
    IF s = Empty \/ Head(s) \notin DOMAIN Digit THEN acc
    ELSE ToIntFrom(Tail(s), 10 * acc + Digit[Head(s)])

ToInt(s) == ToIntFrom(s, 0)

ResMarker == <<"/", "r", "e", "s", "/">>

\* A jsonGet that returns the rest of the text when the value is not closed.
jsonGetUnterminated(s, key) ==
    LET patt == <<"\"", key, "\"", ":", "\"">>
        p    == IndexOf(s, patt, 0)
    IN  IF p < 0 THEN Empty
        ELSE LET q == IndexOf(s, <<"\"">>, p + Len(patt))
             IN  Substring(s, p + Len(patt), IF q < 0 THEN Len(s) ELSE q)

topicStatusCode(topic) ==
    LET p == IndexOf(topic, ResMarker, 0)
    IN  IF p < 0 THEN -1
        ELSE IF p + 9 > Len(topic) THEN -1
        ELSE ToInt(Substring(topic, p + 5, p + 8))

jsonGet(s, key) ==
    LET patt == <<"\"", key, "\"", ":", "\"">>
        p    == IndexOf(s, patt, 0)
    IN  IF p < 0 THEN Empty
        ELSE LET q == IndexOf(s, <<"\"">>, p + Len(patt))
             IN  IF q < 0 THEN Empty
                 ELSE Substring(s, p + Len(patt), q)

jsonGetNested(s, parentKey, childKey) ==
    LET parent == <<"\"", parentKey, "\"", ":", "{">>
        p      == IndexOf(s, parent, 0)
    IN  IF p < 0 THEN Empty
        ELSE LET from == p + Len(parent)
                 e    == IndexOf(s, <<"}">>, from)
                 end  == IF e < 0 THEN Len(s) ELSE e
                 \* sub is bound, not defined, so that it is computed once
             IN  CHOOSE v \in { jsonGet(sub, childKey) :
                                  sub \in {Substring(s, from, end + 1)} } : TRUE

\* ------------------------------------------------------------ Token signing
\* Character codes of the reserved (non-unreserved) characters that occur.
CharCode == [c \in {"/", "=", "+", "\n", " "} |->
               CASE c = "/" -> 47 [] c = "=" -> 61 [] c = "+" -> 43
                 [] c = "\n" -> 10 [] c = " " -> 32]

HexDigits == <<"0", "1", "2", "3", "4", "5", "6", "7",
               "8", "9", "A", "B", "C", "D", "E", "F">>

\* One symbol of urlEncode: an unreserved symbol is kept, any other becomes
\* '%' and the two hex digits of its code, high nibble first.
EncodeSymbol(c) ==
    IF c \in DOMAIN CharCode
    THEN <<"%", HexDigits[((CharCode[c] \div 16) % 16) + 1],
                HexDigits[(CharCode[c] % 16) + 1]>>
    ELSE <<c>>

RECURSIVE urlEncode(_)
urlEncode(value) ==
    IF value = Empty THEN Empty
    ELSE EncodeSymbol(Head(value)) \o urlEncode(Tail(value))

\* String::toLowerCase(): the words with upper-case letters that occur.
LowerSymbol(c) ==
    CASE c = "HubB.azure-devices.net" -> "hubb.azure-devices.net"
      [] c = "Dev2" -> "dev2"
      [] OTHER -> c

toLowerCase(s) == [i \in 1 .. Len(s) |-> LowerSymbol(s[i])]

\* mbedtls_base64_decode: the raw key of a well-formed encoding.
Base64Table == [k \in {KeyGood} |-> <<"k", "e", "y">>]

base64Decode(in) ==
    IF in \in DOMAIN Base64Table
    THEN [ok |-> TRUE, bytes |-> Base64Table[in]]
    ELSE [ok |-> FALSE, bytes |-> Empty]

\* HMAC-SHA256 taken as collision free: the digest names its key and input.
Hmac(key, toSign) == [key |-> key, msg |-> toSign]

EmptyToken == [empty |-> TRUE, sr |-> Empty, sig |-> Hmac(Empty, Empty), se |-> 0]

\* "SharedAccessSignature sr=<sr>&sig=<sig>&se=<se>", the empty String when
\* the key does not decode.
buildSasToken(resourceUri, keyBase64, expiry) ==
    LET key    == base64Decode(keyBase64)
        sr     == toLowerCase(resourceUri)
        toSign == urlEncode(sr) \o <<"\n", ToString(expiry)>>
    IN  IF ~key.ok THEN EmptyToken
        ELSE [empty |-> FALSE, sr |-> urlEncode(sr),
              sig |-> Hmac(key.bytes, toSign), se |-> expiry]

\* time(nullptr): epoch seconds when millis() reads nowMs.
Clock(ms) == BootEpoch + (ms \div 1000)

dpsResource == DPS_ID_SCOPE \o <<"/", "registrations", "/">> \o DPS_REGISTRATION_ID

dpsUsername == dpsResource \o <<"/", "api-version=", "2019-03-31">>

hubResource(hub, devId) == hub \o <<"/", "devices", "/">> \o devId

buildIoTHubUsername(hub, devId) ==
    hub \o <<"/">> \o devId \o <<"/", "?", "api-version=", "2021-04-12">>

\* ------------------------------------------------- The provisioning service
HubA == <<"huba.azure-devices.net">>
HubB == <<"HubB.azure-devices.net">>
Dev1 == <<"dev1">>
Dev2 == <<"Dev2">>
Op1  == <<"op1">>

\* What a reply body says: operationId, status and registrationState's
\* assignedHub and deviceId, each possibly missing (empty).
Body(op, status, hub, dev) == [op |-> op, status |-> status, hub |-> hub, dev |-> dev]

BodyAssigning   == Body(Op1, <<"assigning">>, Empty, Empty)
BodyNoOperation == Body(Empty, <<"assigning">>, Empty, Empty)
BodyAssigned    == Body(Op1, <<"assigned">>, HubB, Dev2)
BodyNoDevice    == Body(Op1, <<"assigned">>, HubA, Empty)
BodyNoHub       == Body(Op1, <<"assigned">>, Empty, Dev1)

Field(key, value) ==
    IF value = Empty THEN Empty
    ELSE << <<"\"", key, "\"", ":", "\"">> \o value \o <<"\"">> >>

\* The members of an object, separated by commas.
RECURSIVE Members(_)
Members(fields) ==
    IF fields = Empty THEN Empty
    ELSE IF Len(fields) = 1 THEN Head(fields)
    ELSE Head(fields) \o <<",">> \o Members(Tail(fields))

\* The payload text of a body: a flat object with registrationState nested
\* one level, as the service writes it.
Payload(b) ==
    LET state == <<"\"", "registrationState", "\"", ":", "{">>
                   \o Members(Field("registrationId", DPS_REGISTRATION_ID)
                                \o Field("assignedHub", b.hub)
                                \o Field("deviceId", b.dev))
                   \o <<"}">>
    IN  <<"{">>
          \o Members(Field("operationId", b.op) \o Field("status", b.status)
                       \o (IF b.hub = Empty /\ b.dev = Empty THEN Empty
                           ELSE <<state>>))
          \o <<"}">>

DigitSym(d) == HexDigits[d + 1]

\* "$dps/registrations/res/<code>/?$rid=".  The request id that follows
\* "$rid=", which the program never reads, is kept in the reply's rid field
\* and left out of the text.
ResponseTopic(code) ==
    <<"$dps", "/", "registrations">> \o ResMarker
      \o <<DigitSym(code \div 100), DigitSym((code \div 10) % 10), DigitSym(code % 10)>>
      \o <<"/", "?", "$rid=">>

Reply(code, r, b) ==
    [topic |-> ResponseTopic(code), payload |-> Payload(b),
     code |-> code, rid |-> r, body |-> b]

\* The (status code, body) pairs the service sends.
ReplyKinds ==
    { <<200, BodyAssigning>>, <<200, BodyAssigned>>, <<200, BodyNoDevice>>,
      <<200, BodyNoHub>>, <<202, BodyAssigning>>, <<202, BodyNoOperation>>,
      <<429, BodyNoOperation>> }

\* ---------------------------------------------------------------- The state
VARIABLES
    pc,                 \* where the program is
    nowMs,              \* millis(): ms since boot
    deviceKey,          \* DPS_DEVICE_KEY_BASE64, the configured key
    assignedHub,        \* String assignedHub
    deviceId,           \* String deviceId
    sasExpiry,          \* time_t sasExpiry
    dpsMsgArrived,      \* volatile bool dpsMsgArrived
    dpsLastTopic,       \* String dpsLastTopic
    dpsLastPayload,     \* String dpsLastPayload
    mqtt,               \* the PubSubClient: server, callback, buffer, connection
    rid,                \* static unsigned rid
    operationId,        \* String operationId of dpsRegisterAndGetHub
    tries,              \* int tries of the poll loop
    t0,                 \* unsigned long t0, start of the first-response wait
    t1,                 \* unsigned long t1, start of the current attempt's wait
    wire,               \* the reply received by the socket and not yet read
    published,          \* history: the requests published, in order
    lastOutcome,        \* history: how the last poll attempt ended
    connLog,            \* history: the connection attempts, in order
    lastSend,           \* unsigned long lastSend
    iothubPublishTopic, \* String iothubPublishTopic
    ticks,              \* how many calls of loop() have returned
    telemetry,          \* history: the mqtt.publish calls of loop(), count and last
    mqttLoops,          \* history: how many times loop() has called mqtt.loop()
    sample,             \* history: the reading of the last call of loop(), if any
    SOIL_RAW_DRY,       \* int SOIL_RAW_DRY
    SOIL_RAW_WET,       \* int SOIL_RAW_WET
    soilRaw,            \* int soilRaw, the argument of soilRawToPercent
    soilPct,            \* float soilPct, its result as a fraction
    jsonText,           \* the String handed to jsonGet / jsonGetNested
    jsonKey,            \* the key (child key) looked up
    jsonParent,         \* the parent key of jsonGetNested
    jsonOut,            \* what the two functions returned
    timerStart,         \* millis() when a timer was started (t0, t1, lastSend)
    timerElapsed,       \* the ms that have passed since
    timerOut            \* what the three elapsed-time tests gave

vars == <<pc, nowMs, deviceKey, assignedHub, deviceId, sasExpiry, dpsMsgArrived,
          dpsLastTopic, dpsLastPayload, mqtt, rid, operationId, tries, t0, t1,
          wire, published, lastOutcome, connLog, lastSend, iothubPublishTopic,
          ticks, telemetry, mqttLoops, sample, SOIL_RAW_DRY, SOIL_RAW_WET,
          soilRaw, soilPct, jsonText, jsonKey, jsonParent, jsonOut,
          timerStart, timerElapsed, timerOut>>

\* What only loop() and the functions it calls write.
sessionVars == <<lastSend, iothubPublishTopic, ticks, telemetry, mqttLoops, sample>>

\* What only the conversions followed on their own write.
calcVars == <<SOIL_RAW_DRY, SOIL_RAW_WET, soilRaw, soilPct,
              jsonText, jsonKey, jsonParent, jsonOut,
              timerStart, timerElapsed, timerOut>>

NoServer == <<"none">>

MqttIdle == [server |-> NoServer, callback |-> "none", bufferSize |-> 256,
             connected |-> FALSE]

NoTelemetry == [count |-> 0, topic |-> Empty, ts |-> 0, ok |-> FALSE,
                server |-> NoServer]

Boot(key) ==
    /\ pc = "boot"
    /\ nowMs = 0
    /\ deviceKey = key
    /\ assignedHub = Empty
    /\ deviceId = Empty
    /\ sasExpiry = 0
    /\ dpsMsgArrived = FALSE
    /\ dpsLastTopic = Empty
    /\ dpsLastPayload = Empty
    /\ mqtt = MqttIdle
    /\ rid = 1
    /\ operationId = Empty
    /\ tries = 0
    /\ t0 = 0
    /\ t1 = 0
    /\ wire = Empty
    /\ published = Empty
    /\ lastOutcome = "none"
    /\ connLog = Empty
    /\ lastSend = 0
    /\ iothubPublishTopic = Empty
    /\ ticks = 0
    /\ telemetry = NoTelemetry
    /\ mqttLoops = 0
    /\ sample = "none"

\* int SOIL_RAW_DRY = 3000; int SOIL_RAW_WET = 1200;
SoilDryDefault == 3000
SoilWetDefault == 1200

NoPercent == [done |-> FALSE, num |-> 0, den |-> 1]

NoJson == [done |-> FALSE, get |-> Empty, nested |-> Empty]

\* The calibration as configured; no conversion followed.
SoilIdle ==
    /\ SOIL_RAW_DRY = SoilDryDefault
    /\ SOIL_RAW_WET = SoilWetDefault
    /\ soilRaw = 0
    /\ soilPct = NoPercent

JsonIdle ==
    /\ jsonText = Empty
    /\ jsonKey = "status"
    /\ jsonParent = "registrationState"
    /\ jsonOut = NoJson

NoTimer == [done |-> FALSE, reg |-> FALSE, poll |-> FALSE, due |-> FALSE]

\* No elapsed-time test followed on its own.
TimerIdle ==
    /\ timerStart = 0
    /\ timerElapsed = 0
    /\ timerOut = NoTimer

Init ==
    \E key \in {KeyGood, KeyBad} : Boot(key) /\ SoilIdle /\ JsonIdle /\ TimerIdle

\* ------------------------------------------------ 32-bit millisecond counts
\* millis(), t0, t1 and lastSend are unsigned long, 32 bits wide.  A 32-bit
\* word is written as the integer with the same 32 low bits that lies in
\* -2^31 .. 2^31 - 1, and is taken apart into two 16-bit halves, so that the
\* word 2^32 - 1 is written -1 and has the halves 65535, 65535.
HalfWord == 65536

Hi(x) == (x \div HalfWord) % HalfWord

Lo(x) == x % HalfWord

\* now - start in unsigned 32-bit arithmetic, as its two halves.
Elapsed(now, start) ==
    LET lo     == Lo(now) - Lo(start)
        borrow == IF lo < 0 THEN 1 ELSE 0
    IN  [hi |-> (Hi(now) - Hi(start) - borrow) % HalfWord, lo |-> lo % HalfWord]

\* d < c for the unsigned 32-bit d and a constant c >= 0.
Below(d, c) ==
    \/ d.hi < c \div HalfWord
    \/ d.hi = c \div HalfWord /\ d.lo < c % HalfWord

\* a < b for two unsigned 32-bit words.
UnsignedLess(a, b) == Hi(a) < Hi(b) \/ (Hi(a) = Hi(b) /\ Lo(a) < Lo(b))

\* -------------------------------------------------- Steps of the handshake
\* A first-response wait that compares the clock with a deadline,
\* millis() < t0 + 20000.
RegWaitingDeadline(now, start) == UnsignedLess(now, start + REG_TIMEOUT_MS)

\* while (millis() - t0 < 20000)
RegWaiting(now, start) == Below(Elapsed(now, start), REG_TIMEOUT_MS)

\* while (millis() - t1 < 5000)
PollWaiting(now, start) == Below(Elapsed(now, start), POLL_TIMEOUT_MS)

\* A poll loop that is not bounded by its attempt count.
MorePollsUnbounded(n) == TRUE

\* A poll loop whose test lets one attempt too many through.
MorePollsOffByOne(n) == n <= MAX_POLLS

\* for (...; tries < 20; ...)
MorePolls(n) == n < MAX_POLLS

\* The clock at the end of a slice of a busy-wait loop that began at now and
\* whose wait runs out at deadline: the loop's test ends the slice there.
SliceEnd(now, deadline) == Min(now + StepMs, deadline)

\* mqttCallback: the topic and payload are stored and the flag is raised.
mqttCallback(m) ==
    [topic |-> m.topic, payload |-> m.payload, arrived |-> TRUE]

\* mqtt.loop() with the handshake's callback: the packet the socket holds, if
\* any, is read and handed to mqttCallback.
Inbox ==
    IF wire # Empty /\ mqtt.connected /\ mqtt.callback = "mqttCallback"
    THEN mqttCallback(wire[1])
    ELSE [topic |-> dpsLastTopic, payload |-> dpsLastPayload,
          arrived |-> dpsMsgArrived]

\* Both values read with the key of the first.
ReadAssignmentSameKey(payload) ==
    [hub |-> jsonGetNested(payload, "registrationState", "assignedHub"),
     dev |-> jsonGetNested(payload, "registrationState", "assignedHub")]

\* assignedHub and deviceId as read from registrationState.
ReadAssignment(payload) ==
    [hub |-> jsonGetNested(payload, "registrationState", "assignedHub"),
     dev |-> jsonGetNested(payload, "registrationState", "deviceId")]

\* An operationId test that accepts the empty one.
HasOperationAlways(op) == TRUE

\* if (operationId == "") return false; the handshake goes on with an
\* operationId only.
HasOperation(op) == op # Empty

\* A first-response wait that gives up on the first reply it cannot use.
AfterFirstReplyStrict(code, op, a) ==
    IF code = 202
    THEN IF ~HasOperation(op) THEN "failed"
         ELSE IF MorePolls(0) THEN "pollPublish" ELSE "failed"
    ELSE IF code = 200 /\ Len(a.hub) # 0 /\ Len(a.dev) # 0 THEN "assigned"
    ELSE "failed"

\* Where the handshake goes after a reply in the first-response wait.
AfterFirstReply(code, op, a) ==
    IF code = 202
    THEN IF ~HasOperation(op) THEN "failed"
         ELSE IF MorePolls(0) THEN "pollPublish" ELSE "failed"
    ELSE IF code = 200 /\ Len(a.hub) # 0 /\ Len(a.dev) # 0 THEN "assigned"
    ELSE "regWait"

\* A disconnect that leaves the connection open.
disconnectNothing(m) == m

\* mqtt.disconnect()
disconnect(m) == [m EXCEPT !.connected = FALSE]

\* A handshake that connects whatever the token is.
AbandonNever(token) == FALSE

\* if (dpsSas == "") return false;
Abandon(token) == token.empty

\* A request id that is not advanced.
NextRidSame(r) == r

\* rid++ of "static unsigned rid": the id of the next request.
NextRid(r) == r + 1

\* setup() up to the first wait: deviceId starts as the registration id, the
\* provisioning connection is opened with a token signed for this attempt,
\* the response channel is subscribed and the registration request published.
Setup(connectOk) ==
    LET now    == Clock(nowMs)
        expiry == now + SAS_TTL_SECS
        dpsSas == buildSasToken(dpsResource, deviceKey, expiry)
        ok     == ~Abandon(dpsSas) /\ connectOk
        topic  == <<"$dps/registrations/PUT/iotdps-register/?$rid=", ToString(rid)>>
    IN  /\ pc = "boot"
        /\ deviceId' = DPS_REGISTRATION_ID
        /\ sasExpiry' = expiry
        /\ mqtt' = [server |-> DPS_HOST, callback |-> "mqttCallback",
                    bufferSize |-> DPS_BUFFER, connected |-> ok]
        /\ connLog' = IF Abandon(dpsSas) THEN connLog
                      ELSE Append(connLog,
                             [server |-> DPS_HOST, clientId |-> DPS_REGISTRATION_ID,
                              user |-> dpsUsername, pass |-> dpsSas,
                              resource |-> dpsResource, at |-> now, ok |-> connectOk])
        /\ IF ok
           THEN /\ published' = Append(published,
                     [kind |-> "register", rid |-> rid, topic |-> topic,
                      operationId |-> Empty])
                /\ rid' = NextRid(rid)
                /\ t0' = nowMs
                /\ pc' = "regWait"
           ELSE /\ pc' = "failed"
                /\ UNCHANGED <<published, rid, t0>>
        /\ UNCHANGED <<nowMs, deviceKey, assignedHub, dpsMsgArrived, dpsLastTopic,
                       dpsLastPayload, operationId, tries, t1, wire,
                       lastOutcome, sessionVars, calcVars>>

\* The service answers a request it has received; the reply waits in the
\* socket until mqtt.loop() reads it.
ServiceReply(code, b, r) ==
    /\ pc \in {"regWait", "pollPublish", "pollWait", "backoff"}
    /\ mqtt.connected
    /\ wire = Empty
    /\ \E i \in Max(1, Len(published) - StaleWindow) .. Len(published) :
          r = published[i].rid
    /\ wire' = <<Reply(code, r, b)>>
    /\ UNCHANGED <<pc, nowMs, deviceKey, assignedHub, deviceId, sasExpiry,
                   dpsMsgArrived, dpsLastTopic, dpsLastPayload, mqtt, rid,
                   operationId, tries, t0, t1, published, lastOutcome,
                   connLog, sessionVars, calcVars>>

\* One slice of the first-response wait: mqtt.loop(), then the arrival flag
\* is tested and the reply, if any, acted on.
RegWaitIter ==
    /\ pc = "regWait"
    /\ RegWaiting(nowMs, t0)
    /\ nowMs < MaxNowMs
    /\ \E in \in {Inbox} :
       \E code \in {topicStatusCode(in.topic)},
          op \in {jsonGet(in.payload, "operationId")},
          a \in {ReadAssignment(in.payload)} :
       \E next \in {AfterFirstReply(code, op, a)} :
        /\ nowMs' = SliceEnd(nowMs, t0 + REG_TIMEOUT_MS)
        /\ wire' = IF mqtt.connected THEN Empty ELSE wire
        /\ dpsLastTopic' = in.topic
        /\ dpsLastPayload' = in.payload
        /\ dpsMsgArrived' = FALSE
        /\ IF in.arrived
           THEN /\ pc' = next
                /\ operationId' = IF code = 202 THEN op ELSE operationId
                /\ assignedHub' = IF code = 200 THEN a.hub ELSE assignedHub
                /\ deviceId' = IF code = 200 THEN a.dev ELSE deviceId
                /\ mqtt' = IF next = "assigned" THEN disconnect(mqtt) ELSE mqtt
           ELSE UNCHANGED <<pc, operationId, assignedHub, deviceId, mqtt>>
        /\ UNCHANGED <<deviceKey, sasExpiry, rid, tries, t0, t1, published,
                       lastOutcome, connLog, sessionVars, calcVars>>

\* The first-response wait has run its 20 s: without an operationId the
\* handshake fails.
RegWaitEnd ==
    /\ pc = "regWait"
    /\ ~RegWaiting(nowMs, t0)
    /\ pc' = IF ~HasOperation(operationId) THEN "failed"
             ELSE IF MorePolls(tries) THEN "pollPublish" ELSE "failed"
    /\ UNCHANGED <<nowMs, deviceKey, assignedHub, deviceId, sasExpiry,
                   dpsMsgArrived, dpsLastTopic, dpsLastPayload, mqtt, rid,
                   operationId, tries, t0, t1, wire, published,
                   lastOutcome, connLog, sessionVars, calcVars>>

\* Top of the poll loop's body: the status poll, carrying the operationId and
\* a fresh request id, is published and the attempt's wait begins.
PollPublish ==
    LET topic == <<"$dps/registrations/GET/iotdps-get-operationstatus/?$rid=",
                   ToString(rid), "&operationId=">> \o operationId
    IN  /\ pc = "pollPublish"
        /\ published' = Append(published,
             [kind |-> "poll", rid |-> rid, topic |-> topic,
              operationId |-> operationId])
        /\ rid' = NextRid(rid)
        /\ t1' = nowMs
        /\ lastOutcome' = "none"
        /\ pc' = "pollWait"
        /\ UNCHANGED <<nowMs, deviceKey, assignedHub, deviceId, sasExpiry,
                       dpsMsgArrived, dpsLastTopic, dpsLastPayload, mqtt,
                       operationId, tries, t0, wire, connLog, sessionVars, calcVars>>

\* A poll loop that gives up on a 200 reply that is not "assigned".
AfterPollReplyGivesUp(code, status, a) ==
    IF code = 200
    THEN IF status = <<"assigned">> /\ Len(a.hub) # 0 /\ Len(a.dev) # 0
         THEN "assigned" ELSE "failed"
    ELSE "backoff"

\* A poll loop that polls on when the assigned reply lacks a field.
AfterPollReplyRetry(code, status, a) ==
    IF code = 200 /\ status = <<"assigned">>
          /\ Len(a.hub) # 0 /\ Len(a.dev) # 0
    THEN "assigned"
    ELSE "backoff"

\* Where the handshake goes after a reply in an attempt's wait.
AfterPollReply(code, status, a) ==
    IF code = 200 /\ status = <<"assigned">>
    THEN IF Len(a.hub) # 0 /\ Len(a.dev) # 0 THEN "assigned" ELSE "failed"
    ELSE "backoff"

\* A poll loop that gives up on the first attempt without a reply.
AfterPollTimeoutFails == "failed"

\* Where the handshake goes when an attempt's wait ends without a reply.
AfterPollTimeout == "backoff"

\* One slice of an attempt's wait: mqtt.loop(), then the arrival flag is
\* tested and the reply, if any, acted on.
PollWaitIter ==
    /\ pc = "pollWait"
    /\ PollWaiting(nowMs, t1)
    /\ nowMs < MaxNowMs
    /\ \E in \in {Inbox} :
       \E code \in {topicStatusCode(in.topic)},
          status \in {jsonGet(in.payload, "status")},
          a \in {ReadAssignment(in.payload)} :
       \E next \in {AfterPollReply(code, status, a)},
          done \in {code = 200 /\ status = <<"assigned">>} :
        /\ nowMs' = SliceEnd(nowMs, t1 + POLL_TIMEOUT_MS)
        /\ wire' = IF mqtt.connected THEN Empty ELSE wire
        /\ dpsLastTopic' = in.topic
        /\ dpsLastPayload' = in.payload
        /\ dpsMsgArrived' = FALSE
        /\ IF in.arrived
           THEN /\ pc' = next
                /\ assignedHub' = IF done THEN a.hub ELSE assignedHub
                /\ deviceId' = IF done THEN a.dev ELSE deviceId
                /\ mqtt' = IF done THEN disconnect(mqtt) ELSE mqtt
                /\ lastOutcome' = "reply"
           ELSE UNCHANGED <<pc, assignedHub, deviceId, mqtt, lastOutcome>>
        /\ UNCHANGED <<deviceKey, sasExpiry, rid, operationId, tries, t0, t1,
                       published, connLog, sessionVars, calcVars>>

\* The attempt's wait has run its 5 s without a reply.
PollWaitEnd ==
    /\ pc = "pollWait"
    /\ ~PollWaiting(nowMs, t1)
    /\ pc' = AfterPollTimeout
    /\ lastOutcome' = "timeout"
    /\ UNCHANGED <<nowMs, deviceKey, assignedHub, deviceId, sasExpiry,
                   dpsMsgArrived, dpsLastTopic, dpsLastPayload, mqtt, rid,
                   operationId, tries, t0, t1, wire, published, connLog, sessionVars, calcVars>>

\* delay(1500), then the loop's increment and test: the next attempt, or the
\* failure after the last one.
Backoff ==
    /\ pc = "backoff"
    /\ nowMs < MaxNowMs
    /\ nowMs' = nowMs + POLL_BACKOFF_MS
    /\ tries' = tries + 1
    /\ pc' = IF MorePolls(tries + 1) THEN "pollPublish" ELSE "failed"
    /\ UNCHANGED <<deviceKey, assignedHub, deviceId, sasExpiry, dpsMsgArrived,
                   dpsLastTopic, dpsLastPayload, mqtt, rid, operationId, t0, t1,
                   wire, published, lastOutcome, connLog, sessionVars, calcVars>>

\* A setup() that provisions again after a successful handshake.
SetupReturnProvisionAgain ==
    /\ pc = "assigned"
    /\ pc' = "boot"
    /\ UNCHANGED <<nowMs, deviceKey, assignedHub, deviceId, sasExpiry,
                   dpsMsgArrived, dpsLastTopic, dpsLastPayload, mqtt, rid,
                   operationId, tries, t0, t1, wire, published,
                   lastOutcome, connLog, sessionVars, calcVars>>

\* dpsRegisterAndGetHub returned true: setup() logs the assignment and
\* returns, and the driver starts calling loop().
SetupReturn ==
    /\ pc = "assigned"
    /\ pc' = "loop"
    /\ UNCHANGED <<nowMs, deviceKey, assignedHub, deviceId, sasExpiry,
                   dpsMsgArrived, dpsLastTopic, dpsLastPayload, mqtt, rid,
                   operationId, tries, t0, t1, wire, published,
                   lastOutcome, connLog, sessionVars, calcVars>>

\* A setup() that returns after a failed handshake, so that the driver
\* starts calling loop().
RestartSkipped ==
    /\ pc = "failed"
    /\ pc' = "loop"
    /\ UNCHANGED <<nowMs, deviceKey, assignedHub, deviceId, sasExpiry,
                   dpsMsgArrived, dpsLastTopic, dpsLastPayload, mqtt, rid,
                   operationId, tries, t0, t1, wire, published,
                   lastOutcome, connLog, sessionVars, calcVars>>

\* dpsRegisterAndGetHub returned false: delay(10000), then ESP.restart(), which
\* boots the program again with the same configuration.
Restart ==
    /\ pc = "failed"
    /\ pc' = "boot"
    /\ nowMs' = 0
    /\ assignedHub' = Empty
    /\ deviceId' = Empty
    /\ sasExpiry' = 0
    /\ dpsMsgArrived' = FALSE
    /\ dpsLastTopic' = Empty
    /\ dpsLastPayload' = Empty
    /\ mqtt' = MqttIdle
    /\ rid' = 1
    /\ operationId' = Empty
    /\ tries' = 0
    /\ t0' = 0
    /\ t1' = 0
    /\ wire' = Empty
    /\ published' = Empty
    /\ lastOutcome' = "none"
    /\ connLog' = Empty
    /\ lastSend' = 0
    /\ iothubPublishTopic' = Empty
    /\ ticks' = 0
    /\ telemetry' = NoTelemetry
    /\ mqttLoops' = 0
    /\ sample' = "none"
    /\ UNCHANGED <<deviceKey, calcVars>>

\* ------------------------------------------------------ Steps of loop()
\* A hub token that is signed for the time of signing, not for its expiry.
buildIoTHubSasStale(hub, devId, now) ==
    [expiry |-> now + SAS_TTL_SECS,
     token  |-> buildSasToken(hubResource(hub, devId), deviceKey, now)]

\* buildIoTHubSas at clock now: the new sasExpiry and the token signed for
\* <hub>/devices/<devId> with it.
buildIoTHubSas(hub, devId, now) ==
    [expiry |-> now + SAS_TTL_SECS,
     token  |-> buildSasToken(hubResource(hub, devId), deviceKey,
                              now + SAS_TTL_SECS)]

\* An ensureIoTHubMqtt without its first line.
AlreadyConnectedNever(m) == FALSE

\* if (mqtt.connected()) return true;
AlreadyConnected(m) == m.connected

\* if (nowMs - lastSend >= SEND_INTERVAL_MS)
Due(now, last) == ~Below(Elapsed(now, last), SEND_INTERVAL_MS)

\* "devices/<deviceId>/messages/events/"
EventsTopic(devId) ==
    <<"devices", "/">> \o devId \o <<"/", "messages", "/", "events", "/">>

\* A loop() that returns at once when the connect attempt failed.
AfterConnectFailNoDelay == "loop"

\* A loop() that does not return when the connect attempt failed.
AfterConnectFailHalts == "halted"

\* if (!ensureIoTHubMqtt()) { delay(2000); return; }
AfterConnectFail == "retryDelay"

\* loop() up to the return of ensureIoTHubMqtt: nothing is done when the
\* client is connected; otherwise the client is pointed at the assigned hub,
\* a token is signed and the connection attempted.
ensureIoTHubMqtt(connectOk) ==
    /\ pc = "loop"
    /\ ticks < MaxTicks
    /\ IF AlreadyConnected(mqtt)
       THEN /\ pc' = "serve"
            /\ UNCHANGED <<mqtt, sasExpiry, connLog>>
       ELSE \E sas \in {buildIoTHubSas(assignedHub, deviceId, Clock(nowMs))} :
            /\ sasExpiry' = sas.expiry
            /\ mqtt' = [server |-> assignedHub, callback |-> "none",
                        bufferSize |-> HUB_BUFFER, connected |-> connectOk]
            /\ connLog' = Append(connLog,
                 [server |-> assignedHub, clientId |-> deviceId,
                  user |-> buildIoTHubUsername(assignedHub, deviceId),
                  pass |-> sas.token,
                  resource |-> hubResource(assignedHub, deviceId),
                  at |-> Clock(nowMs), ok |-> connectOk])
            /\ pc' = IF connectOk THEN "serve" ELSE AfterConnectFail
    /\ UNCHANGED <<nowMs, deviceKey, assignedHub, deviceId, dpsMsgArrived,
                   dpsLastTopic, dpsLastPayload, rid, operationId, tries, t0,
                   t1, wire, published, lastOutcome, sessionVars, calcVars>>

\* ensureIoTHubMqtt returned false: delay(2000); return;
LoopDelay ==
    /\ pc = "retryDelay"
    /\ nowMs' = nowMs + RETRY_DELAY_MS
    /\ ticks' = ticks + 1
    /\ pc' = "loop"
    /\ UNCHANGED <<deviceKey, assignedHub, deviceId, sasExpiry, dpsMsgArrived,
                   dpsLastTopic, dpsLastPayload, mqtt, rid, operationId,
                   tries, t0, t1, wire, published, lastOutcome, connLog,
                   lastSend, iothubPublishTopic, telemetry, mqttLoops, sample,
                   calcVars>>

\* A publish that sees the connection as it was before mqtt.loop().
ConnectionAtPublishStale(before, after) == before

\* mqtt.loop() is called before publishTelemetry: mqtt.publish finds the
\* connection as mqtt.loop() left it.
ConnectionAtPublish(before, after) == after

\* A tick that publishes whatever the reading is.
SkippedNever(reading) == FALSE

\* if (isnan(h) || isnan(t)): the reading is skipped.
Skipped(reading) == reading = "nan"

\* A lastSend that is advanced only by a publish that succeeded.
lastSendOnSuccess(now, last, due, sent) == IF due /\ sent THEN now ELSE last

\* lastSend = nowMs; first statement under the interval test, before the
\* reading is taken: lastSend after a call of loop() at clock now.
lastSendAfter(now, last, due, sent) == IF due THEN now ELSE last

\* The rest of loop() after ensureIoTHubMqtt returned true: mqtt.loop(), which
\* may find that the server has dropped the connection; the interval test;
\* lastSend; the reading; publishTelemetry when the reading is valid.  The
\* call lasts dur ms.
LoopBody(dropped, reading, dur) ==
    LET up    == mqtt.connected /\ ~dropped
        due   == Due(nowMs, lastSend)
        send  == due /\ ~Skipped(reading)
        topic == IF Len(iothubPublishTopic) = 0 THEN EventsTopic(deviceId)
                 ELSE iothubPublishTopic
    IN  /\ pc = "serve"
        /\ nowMs + dur <= MaxNowMs
        /\ due \/ reading = "valid"
        /\ mqtt' = [mqtt EXCEPT !.connected = up]
        /\ lastSend' = lastSendAfter(nowMs, lastSend, due, send /\ up)
        /\ iothubPublishTopic' = IF send THEN topic ELSE iothubPublishTopic
        /\ telemetry' = IF send
                        THEN [count |-> telemetry.count + 1, topic |-> topic,
                              ts |-> Clock(nowMs),
                              ok |-> ConnectionAtPublish(mqtt.connected, up),
                              server |-> mqtt.server]
                        ELSE telemetry
        /\ mqttLoops' = mqttLoops + 1
        /\ sample' = IF due THEN reading ELSE "none"
        /\ nowMs' = nowMs + dur
        /\ ticks' = ticks + 1
        /\ pc' = "loop"
        /\ UNCHANGED <<deviceKey, assignedHub, deviceId, sasExpiry,
                       dpsMsgArrived, dpsLastTopic, dpsLastPayload, rid,
                       operationId, tries, t0, t1, wire, published,
                       lastOutcome, connLog, calcVars>>

\* How many calls of loop() one token lifetime holds at one per interval.
QuietTicks == (SAS_TTL_SECS * 1000) \div SEND_INTERVAL_MS

\* QuietTicks calls of loop() in a row, taken in one step: in each the client
\* is connected, so ensureIoTHubMqtt returns at its first line, mqtt.loop()
\* finds the connection up, the reading is valid and the call lasts one
\* interval; the first publishes if its interval test passes, the others do.
QuietRun ==
    LET first == IF Due(nowMs, lastSend) THEN 1 ELSE 0
        last  == nowMs + (QuietTicks - 1) * SEND_INTERVAL_MS
    IN  /\ pc = "loop"
        /\ mqtt.connected
        /\ nowMs + QuietTicks * SEND_INTERVAL_MS <= MaxNowMs
        /\ lastSend' = last
        /\ iothubPublishTopic' = IF Len(iothubPublishTopic) = 0
                                 THEN EventsTopic(deviceId)
                                 ELSE iothubPublishTopic
        /\ telemetry' = [count |-> telemetry.count + QuietTicks - 1 + first,
                         topic |-> iothubPublishTopic', ts |-> Clock(last),
                         ok |-> TRUE, server |-> mqtt.server]
        /\ mqttLoops' = mqttLoops + QuietTicks
        /\ sample' = "valid"
        /\ nowMs' = nowMs + QuietTicks * SEND_INTERVAL_MS
        /\ UNCHANGED <<pc, deviceKey, assignedHub, deviceId, sasExpiry,
                       dpsMsgArrived, dpsLastTopic, dpsLastPayload, mqtt, rid,
                       operationId, tries, t0, t1, wire, published,
                       lastOutcome, connLog, ticks, calcVars>>

\* How long a call of loop() lasts (ms).
TickMs == {ShortMs, SEND_INTERVAL_MS}

Session ==
    \/ \E connectOk \in BOOLEAN : ensureIoTHubMqtt(connectOk)
    \/ LoopDelay
    \/ \E dropped \in BOOLEAN, reading \in {"valid", "nan"}, dur \in TickMs :
          LoopBody(dropped, reading, dur)
    \/ QuietRun

Handshake ==
    \/ \E connectOk \in BOOLEAN : Setup(connectOk)
    \/ RegWaitIter
    \/ RegWaitEnd
    \/ PollPublish
    \/ PollWaitIter
    \/ PollWaitEnd
    \/ Backoff
    \/ SetupReturn
    \/ Restart

Service ==
    \E k \in ReplyKinds, r \in 1 .. (MAX_POLLS + 1) : ServiceReply(k[1], k[2], r)

Next == Handshake \/ Service \/ Session

Spec == Init /\ [][Next]_vars

\* ------------------------------------------------- loop() called for ever
\* setup() has returned after the shortest successful handshake: the
\* registration request was answered at once by a 200 reply with status
\* "assigned", HubB and Dev2, and the provisioning connection was closed.
SessionInit ==
    /\ pc = "loop"
    /\ nowMs = Min(StepMs, REG_TIMEOUT_MS)
    /\ deviceKey = KeyGood
    /\ assignedHub = HubB
    /\ deviceId = Dev2
    /\ sasExpiry = Clock(0) + SAS_TTL_SECS
    /\ dpsMsgArrived = FALSE
    /\ dpsLastTopic = ResponseTopic(200)
    /\ dpsLastPayload = Payload(BodyAssigned)
    /\ mqtt = [server |-> DPS_HOST, callback |-> "mqttCallback",
               bufferSize |-> DPS_BUFFER, connected |-> FALSE]
    /\ rid = NextRid(1)
    /\ operationId = Empty
    /\ tries = 0
    /\ t0 = 0
    /\ t1 = 0
    /\ wire = Empty
    /\ published =
         <<[kind |-> "register", rid |-> 1,
            topic |-> <<"$dps/registrations/PUT/iotdps-register/?$rid=", ToString(1)>>,
            operationId |-> Empty]>>
    /\ lastOutcome = "none"
    /\ connLog =
         <<[server |-> DPS_HOST, clientId |-> DPS_REGISTRATION_ID,
            user |-> dpsUsername,
            pass |-> buildSasToken(dpsResource, KeyGood, Clock(0) + SAS_TTL_SECS),
            resource |-> dpsResource, at |-> Clock(0), ok |-> TRUE]>>
    /\ lastSend = 0
    /\ iothubPublishTopic = Empty
    /\ ticks = 0
    /\ telemetry = NoTelemetry
    /\ mqttLoops = 0
    /\ sample = "none"
    /\ SoilIdle
    /\ JsonIdle
    /\ TimerIdle

\* The driver calls loop() again and again: a step of loop() that can be
\* taken is taken.
SessionFairSpec == SessionInit /\ [][Session]_vars /\ WF_vars(Session)


\* ------------------------------------------------------- soilRawToPercent
\* The rest of the state, which a conversion followed on its own leaves alone.
programVars ==
    <<pc, nowMs, deviceKey, assignedHub, deviceId, sasExpiry, dpsMsgArrived,
      dpsLastTopic, dpsLastPayload, mqtt, rid, operationId, tries, t0, t1,
      wire, published, lastOutcome, connLog, sessionVars>>

\* constrain(amt, low, high)
constrain(amt, low, high) ==
    IF amt < low THEN low ELSE IF amt > high THEN high ELSE amt

\* A conversion that does not clamp the reading.
soilRawToPercentUnclamped(raw) ==
    [done |-> TRUE,
     num  |-> 100 * (SOIL_RAW_DRY - raw),
     den  |-> SOIL_RAW_DRY - SOIL_RAW_WET]

\* soilRawToPercent: 100.0f * (SOIL_RAW_DRY - raw) / (SOIL_RAW_DRY -
\* SOIL_RAW_WET) with raw clamped into the calibration range; the quotient is
\* kept as the fraction num / den.
soilRawToPercent(raw) ==
    [done |-> TRUE,
     num  |-> 100 * (SOIL_RAW_DRY - constrain(raw, SOIL_RAW_WET, SOIL_RAW_DRY)),
     den  |-> SOIL_RAW_DRY - SOIL_RAW_WET]

\* The calibrations followed: every wet < dry up to MaxRaw, and the
\* configured one.
Calibrations ==
    { c \in (0 .. MaxRaw) \X (0 .. MaxRaw) : c[1] < c[2] }
      \cup { <<SoilWetDefault, SoilDryDefault>> }

\* The readings followed: below, inside and above every calibration.
RawReadings == (-1 .. MaxRaw + 1) \cup {600, 1200, 2100, 3000, 4095}

SoilInit ==
    /\ Boot(KeyGood)
    /\ JsonIdle
    /\ TimerIdle
    /\ \E c \in Calibrations, raw \in RawReadings :
          /\ SOIL_RAW_WET = c[1]
          /\ SOIL_RAW_DRY = c[2]
          /\ soilRaw = raw
    /\ soilPct = NoPercent

\* float soilPct = soilRawToPercent(soilRaw);
SoilConvert ==
    /\ ~soilPct.done
    /\ soilPct' = soilRawToPercent(soilRaw)
    /\ UNCHANGED <<programVars, SOIL_RAW_DRY, SOIL_RAW_WET, soilRaw,
                   jsonText, jsonKey, jsonParent, jsonOut,
                   timerStart, timerElapsed, timerOut>>

SoilNext == SoilConvert

SoilSpec == SoilInit /\ [][SoilNext]_vars

\* -------------------------------------------------- jsonGet, jsonGetNested
\* The pieces texts are put together from: the pattern of key "k", the
\* pattern of parent "p", a quote, a closing brace, a value word and the bare
\* key.
Chunks ==
    { <<"\"", "k", "\"", ":", "\"">>, <<"\"", "p", "\"", ":", "{">>,
      <<"\"">>, <<"}">>, <<"v">>, <<"k">> }

RECURSIVE Flatten(_)
Flatten(cs) == IF cs = Empty THEN Empty ELSE Head(cs) \o Flatten(Tail(cs))

\* The texts followed: well-formed, truncated, repeated and missing-key ones.
Texts == { Flatten(cs) : cs \in UNION { [1 .. n -> Chunks] : n \in 0 .. MaxChunks } }

JsonInit ==
    /\ Boot(KeyGood)
    /\ SoilIdle
    /\ TimerIdle
    /\ jsonText \in Texts
    /\ jsonKey = "k"
    /\ jsonParent = "p"
    /\ jsonOut = NoJson

\* jsonGet(s, key) and jsonGetNested(s, parentKey, childKey) on the text.
JsonParse ==
    /\ ~jsonOut.done
    /\ jsonOut' = [done   |-> TRUE,
                   get    |-> jsonGet(jsonText, jsonKey),
                   nested |-> jsonGetNested(jsonText, jsonParent, jsonKey)]
    /\ UNCHANGED <<programVars, SOIL_RAW_DRY, SOIL_RAW_WET, soilRaw, soilPct,
                   jsonText, jsonKey, jsonParent,
                   timerStart, timerElapsed, timerOut>>

JsonNext == JsonParse

JsonSpec == JsonInit /\ [][JsonNext]_vars

\* ------------------------------------------------ The elapsed-time tests
\* How far before and after the wrap of the counter timers are started.
MaxBefore == 3

\* The timeouts the three tests compare with.
Timeouts == {REG_TIMEOUT_MS, POLL_TIMEOUT_MS, SEND_INTERVAL_MS}

\* The counter values timers are started at: around the wrap from 2^32 - 1
\* (written -1) to 0, and one timeout, give or take 1 ms, before it.
TimerStarts ==
    (-MaxBefore .. MaxBefore)
       \cup { d - t : t \in Timeouts, d \in -1 .. 1 }

\* The times that then pass: none, a few ms, and each timeout give or take
\* 1 ms.
TimerElapses ==
    (0 .. MaxBefore) \cup { t + d : t \in Timeouts, d \in -1 .. 1 }

\* millis() when e ms have passed since it was start.
millisAfter(start, e) == start + e

TimerInit ==
    /\ Boot(KeyGood)
    /\ SoilIdle
    /\ JsonIdle
    /\ timerStart \in TimerStarts
    /\ timerElapsed \in TimerElapses
    /\ timerOut = NoTimer

\* The three tests, made timerElapsed ms after the timer was started.
TimerTest ==
    /\ ~timerOut.done
    /\ \E now \in {millisAfter(timerStart, timerElapsed)} :
          timerOut' = [done |-> TRUE,
                       reg  |-> RegWaiting(now, timerStart),
                       poll |-> PollWaiting(now, timerStart),
                       due  |-> Due(now, timerStart)]
    /\ UNCHANGED <<programVars, SOIL_RAW_DRY, SOIL_RAW_WET, soilRaw, soilPct,
                   jsonText, jsonKey, jsonParent, jsonOut,
                   timerStart, timerElapsed>>

TimerNext == TimerTest

TimerSpec == TimerInit /\ [][TimerNext]_vars

\* ------------------------------------------------------------------ Claims
Assigning == {"pollPublish", "pollWait", "backoff"}

\* The handshake has returned success.
Returned == {"assigned", "loop", "serve", "retryDelay"}

Polls == Cardinality({i \in DOMAIN published : published[i].kind = "poll"})

Complete(b) == b.hub # Empty /\ b.dev # Empty

\* A step of the first-response wait that reads a reply off the socket.
FirstReplyStep == pc = "regWait" /\ wire # Empty /\ wire' = Empty

\* A step of an attempt's wait that reads a reply off the socket.
PollReplyStep == pc = "pollWait" /\ wire # Empty /\ wire' = Empty

\* A reply that is neither a 202 nor a 200 carrying both values.
Unusable(m) == m.code # 202 /\ ~(m.code = 200 /\ Complete(m.body))

\* C1: the handshake returns success only in a step that reads a 200 reply
\* (with status "assigned" when polling) carrying both values, that step sets
\* assignedHub and deviceId to the registrationState values of that reply, and
\* they stay so, both non-empty, once success is returned.
C1_AssignedFromOneReply ==
    /\ [][(pc # "assigned" /\ pc' = "assigned") =>
             /\ FirstReplyStep \/ PollReplyStep
             /\ wire[1].code = 200
             /\ PollReplyStep => wire[1].body.status = <<"assigned">>
             /\ assignedHub' = wire[1].body.hub
             /\ deviceId' = wire[1].body.dev]_vars
    /\ [][(pc \in Returned) =>
             (assignedHub' = assignedHub /\ deviceId' = deviceId)]_vars
    /\ [](pc \in Returned => (assignedHub # Empty /\ deviceId # Empty))

\* C1 witness: success reached by polling.
C1_Witness == pc = "assigned" /\ Polls > 1 /\ assignedHub = HubB /\ deviceId = Dev2

\* The order of the handshake's stages within one instant.
Stage(p) ==
    CASE p = "boot" -> 0 [] p = "regWait" -> 1 [] p = "pollPublish" -> 2
      [] p = "pollWait" -> 3 [] p = "backoff" -> 4 [] OTHER -> 5

\* The longest a handshake can take: every wait runs to its timeout.
HandshakeBoundMs ==
    REG_TIMEOUT_MS + MAX_POLLS * (POLL_TIMEOUT_MS + POLL_BACKOFF_MS)

\* C2: the handshake ends Assigned or Failed whatever the service replies.
\* Until it has ended a step of it can always be taken, every step of it
\* moves the clock or, within one instant, the stage forward, and the clock
\* never passes the sum of the bounded waits; and it ends Assigned only if a
\* reply was received, so with no reply it ends Failed.
C2_Terminates ==
    /\ [](pc \in {"regWait"} \cup Assigning => ENABLED Handshake)
    /\ [][(pc \in {"regWait"} \cup Assigning /\ (pc' # pc \/ nowMs' # nowMs)) =>
             \/ nowMs' > nowMs
             \/ (nowMs' = nowMs /\ Stage(pc') > Stage(pc))]_vars
    /\ [](pc \in {"boot", "regWait", "failed", "assigned"} \cup Assigning =>
             nowMs <= HandshakeBoundMs)
    /\ [](pc \in Returned => dpsLastTopic # Empty)

\* C2 witness: no reply was ever received and the handshake has ended Failed.
C2_Witness ==
    pc = "failed" /\ dpsLastTopic = Empty /\ Len(published) = 1
                  /\ nowMs >= REG_TIMEOUT_MS

\* C3: a reply that answers an earlier request id than the outstanding one is
\* ignored: the step that reads it leaves the handshake where it is.
C3_StaleIgnored ==
    [][((FirstReplyStep \/ PollReplyStep) /\ wire[1].rid # rid - 1) =>
          (pc' = pc /\ UNCHANGED <<assignedHub, deviceId, operationId>>)]_vars

\* C4 as stated: in Registering, a reply that is neither a 202 nor a complete
\* 200 moves the handshake to Failed.
C4_UnusableReplyFails ==
    [][(FirstReplyStep /\ Unusable(wire[1])) => pc' = "failed"]_vars

\* C4 as amended: in Registering, a reply that is neither a 202 nor a complete
\* 200 does not end the wait; the handshake leaves Registering for Failed
\* only on a 202 without operationId or when the 20 s have run out.
C4_UnusableReplyKeepsWaiting ==
    [][/\ (FirstReplyStep /\ Unusable(wire[1])) =>
             (pc' = "regWait" /\ operationId' = operationId)
       /\ (pc = "regWait" /\ pc' = "failed") =>
             \/ ~RegWaiting(nowMs, t0)
             \/ (wire # Empty /\ wire[1].code = 202 /\ wire[1].body.op = Empty)]_vars

\* C4 witness: Assigning was reached after a 200 without deviceId had been
\* acted on in Registering.
C4_Witness == pc = "pollPublish" /\ tries = 0 /\ deviceId = Empty

\* C5 as stated: a poll attempt that ends without a reply moves the handshake
\* to Failed.
C5_TimeoutFails ==
    [][(pc = "pollWait" /\ ~PollWaiting(nowMs, t1) /\ pc' # pc) => pc' = "failed"]_vars

\* C5 as amended: a poll attempt that ends without a reply ends that attempt
\* only: the back-off follows, and after it the next poll is published unless
\* 20 attempts have been made.
C5_TimeoutEndsAttemptOnly ==
    [][/\ (pc = "pollWait" /\ ~PollWaiting(nowMs, t1) /\ pc' # pc) => pc' = "backoff"
       /\ (pc = "backoff" /\ pc' # pc) =>
             /\ nowMs' = nowMs + POLL_BACKOFF_MS
             /\ pc' = IF tries + 1 < MAX_POLLS THEN "pollPublish" ELSE "failed"
       /\ (pc = "pollPublish" /\ pc' # pc) =>
             /\ pc' = "pollWait"
             /\ Len(published') = Len(published) + 1]_vars

\* C5 witness: an attempt has timed out and the next poll is about to be
\* published.
C5_Witness == pc = "pollPublish" /\ lastOutcome = "timeout" /\ tries > 0

\* C6: at most 20 status polls are published, one per attempt, and after the
\* 20th attempt without success the handshake is Failed.
C6_AtMostTwentyPolls ==
    /\ Polls <= MAX_POLLS
    /\ tries <= MAX_POLLS
    /\ (pc = "pollPublish" => Polls = tries)
    /\ (pc \in {"pollWait", "backoff"} => Polls = tries + 1)
    /\ (tries = MAX_POLLS => pc = "failed")

\* C6 witness: all 20 attempts have been made.
C6_Witness == pc = "failed" /\ tries = MAX_POLLS /\ Polls = MAX_POLLS

\* C7: in Assigning a 200 reply with status "assigned" ends the handshake in
\* that step, Assigned when both values are present and Failed otherwise, and
\* no poll is published by it or after it.
C7_AssignedReplyEnds ==
    [][/\ (PollReplyStep /\ wire[1].code = 200
              /\ wire[1].body.status = <<"assigned">>) =>
             /\ pc' = IF Complete(wire[1].body) THEN "assigned" ELSE "failed"
             /\ published' = published
       /\ (pc \in Returned \cup {"failed"}) =>
             (published' = published \/ published' = Empty)]_vars

\* C7 witness: an "assigned" reply without deviceId ended the handshake Failed
\* with attempts left.
C7_Witness ==
    /\ pc = "failed"
    /\ Polls > 0
    /\ tries < MAX_POLLS - 1
    /\ lastOutcome = "reply"
    /\ dpsLastPayload = Payload(BodyNoDevice)

\* The session is Connected: loop() runs and the client holds a connection to
\* the assigned hub.
Connected ==
    pc \in {"loop", "serve"} /\ mqtt.connected /\ mqtt.server = assignedHub

\* C8: while the session is Connected the token it was authenticated with
\* has not expired: the clock has not passed sasExpiry.
C8_TokenNotExpired == Connected => Clock(nowMs) <= sasExpiry

\* A step in which ensureIoTHubMqtt is called and returns.
EnsureStep == pc = "loop" /\ pc' # "loop"

\* C9: called with the client connected, ensureIoTHubMqtt returns true and
\* changes nothing: sasExpiry, the client's server, callback, buffer size and
\* connection, the connection attempts made and every other variable are as
\* before, so that a further call finds the same state and does the same.
C9_EnsureNoOpWhenConnected ==
    [][(EnsureStep /\ mqtt.connected) =>
          /\ pc' = "serve"
          /\ UNCHANGED <<nowMs, deviceKey, assignedHub, deviceId, sasExpiry,
                         dpsMsgArrived, dpsLastTopic, dpsLastPayload, mqtt,
                         rid, operationId, tries, t0, t1, wire, published,
                         lastOutcome, connLog, sessionVars, calcVars>>]_vars

\* C9 witness: two calls in a row, in the second and third tick, found the
\* connection of the first tick and returned true.
C9_Witness ==
    /\ pc = "serve"
    /\ ticks = 2
    /\ Len(connLog) = 2
    /\ connLog[2].ok
    /\ mqtt.connected

\* The resource a connection attempt is made for.
ResourceOf(c) ==
    IF c.server = DPS_HOST
    THEN DPS_ID_SCOPE \o <<"/", "registrations", "/">> \o DPS_REGISTRATION_ID
    ELSE c.server \o <<"/", "devices", "/">> \o c.clientId

\* C10 as stated: every connection attempt presents a token whose expiry is
\* the clock at the attempt plus 3600 s and whose scope is the resource of the
\* connection, and no token is presented on two attempts.
C10_TokenNeverReused ==
    \A i \in DOMAIN connLog :
        /\ connLog[i].pass.se = connLog[i].at + SAS_TTL_SECS
        /\ connLog[i].pass.sr = urlEncode(ResourceOf(connLog[i]))
        /\ \A j \in DOMAIN connLog : j # i => connLog[j].pass # connLog[i].pass

\* C10 as amended: every connection attempt presents a token signed in that
\* attempt, whose expiry is the clock at the attempt plus 3600 s and whose
\* scope is the lower-cased resource of the connection; sasExpiry is that
\* expiry; and a token is presented on two attempts only when they are made
\* for the same resource within the same second of the clock.
C10_TokenPerAttempt ==
    /\ [](\A i \in DOMAIN connLog :
            /\ connLog[i].pass.se = connLog[i].at + SAS_TTL_SECS
            /\ connLog[i].resource = ResourceOf(connLog[i])
            /\ connLog[i].pass.sr = urlEncode(toLowerCase(ResourceOf(connLog[i])))
            /\ connLog[i].pass.sig.msg =
                  connLog[i].pass.sr \o <<"\n", ToString(connLog[i].pass.se)>>
            /\ \A j \in DOMAIN connLog :
                  connLog[j].pass = connLog[i].pass <=>
                     /\ ResourceOf(connLog[j]) = ResourceOf(connLog[i])
                     /\ connLog[j].at = connLog[i].at)
    /\ [][(connLog' # connLog /\ connLog' # Empty) =>
             /\ connLog'[Len(connLog')].at = Clock(nowMs)
             /\ sasExpiry' = connLog'[Len(connLog')].pass.se]_vars

\* C10 witness: the hub connection was opened, lost and opened again within
\* one second of the clock, and both attempts presented the same token.
C10_Witness ==
    /\ Len(connLog) = 3
    /\ connLog[2].pass = connLog[3].pass
    /\ connLog[1].pass # connLog[2].pass
    /\ connLog[3].server = HubB

\* A step of loop() in which ensureIoTHubMqtt attempts a hub connection.
HubAttemptStep == EnsureStep /\ connLog' # connLog

\* C11 as stated: between two hub connect attempts there is always the 2 s
\* back-off: an attempt is made no sooner than 2 s after the one before it.
C11_BackoffBetweenAttempts ==
    [][(HubAttemptStep /\ connLog[Len(connLog)].server # DPS_HOST) =>
          Clock(nowMs) >= connLog[Len(connLog)].at + RETRY_DELAY_MS \div 1000]_vars

\* C11 as amended: a failed hub connect attempt leaves the client
\* disconnected and ends the tick with the 2 s delay alone, without
\* mqtt.loop(), a reading or a publish; and a hub connect attempt that
\* follows a failed one is made no sooner than 2 s after it.
C11_BackoffAfterFailure ==
    [][/\ (HubAttemptStep /\ ~mqtt'.connected) =>
             /\ pc' = "retryDelay"
             /\ UNCHANGED <<nowMs, lastSend, iothubPublishTopic, telemetry>>
       /\ (pc = "retryDelay" /\ pc' # pc) =>
             /\ pc' = "loop"
             /\ nowMs' = nowMs + RETRY_DELAY_MS
             /\ ~mqtt'.connected
             /\ UNCHANGED <<mqtt, connLog, lastSend, iothubPublishTopic,
                            telemetry>>
       /\ (HubAttemptStep /\ connLog[Len(connLog)].server # DPS_HOST
              /\ ~connLog[Len(connLog)].ok) =>
             Clock(nowMs) >= connLog[Len(connLog)].at + RETRY_DELAY_MS \div 1000]_vars

\* C11 witness: a hub connect attempt failed, the delay was taken and the
\* next attempt made 2 s after the failed one.
C11_Witness ==
    /\ Len(connLog) = 3
    /\ ~connLog[2].ok
    /\ connLog[3].at = connLog[2].at + RETRY_DELAY_MS \div 1000
    /\ ticks = 1

\* A step that runs the rest of one call of loop() after ensureIoTHubMqtt
\* returned true.
BodyStep == pc = "serve" /\ pc' # pc

\* The hub connect attempts of this boot that failed.
FailedAttempts ==
    Cardinality({i \in DOMAIN connLog :
                    connLog[i].server # DPS_HOST /\ ~connLog[i].ok})

\* C12: in every tick in which ensureIoTHubMqtt returns true mqtt.loop() is
\* run, once, before any publish of the tick: such a tick always goes on to
\* the rest of loop(), which calls mqtt.loop() first, so that a publish of
\* the tick finds the connection as mqtt.loop() left it; and the ticks that
\* have ended are those that called mqtt.loop() and those whose connect
\* attempt failed.
C12_TransportServicedEveryTick ==
    /\ [][/\ (EnsureStep /\ mqtt'.connected) => pc' = "serve"
          /\ BodyStep =>
                /\ mqttLoops' = mqttLoops + 1
                /\ telemetry'.count <= telemetry.count + 1
                /\ telemetry'.count > telemetry.count =>
                      telemetry'.ok = mqtt'.connected
          /\ telemetry' # telemetry => (BodyStep \/ mqttLoops' >= mqttLoops + QuietTicks)
          /\ mqttLoops' # mqttLoops =>
                (BodyStep \/ pc' = "boot" \/ mqttLoops' = mqttLoops + QuietTicks)]_vars
    /\ [](pc = "loop" =>
             ticks + (IF mqttLoops >= QuietTicks THEN QuietTicks ELSE 0)
                = mqttLoops + FailedAttempts)

\* C12 witness: a tick whose mqtt.loop() found the connection dropped and
\* whose publish, made after it, failed.
C12_Witness ==
    /\ pc = "loop"
    /\ mqttLoops = 1
    /\ telemetry.count = 1
    /\ ~telemetry.ok
    /\ ~mqtt.connected

\* C13: a tick whose reading has a NaN temperature or humidity publishes
\* nothing: no mqtt.publish call is made and the topic is not built; loop()
\* returns, and the next call of loop() can be taken.
C13_NanReadingSkipped ==
    /\ [][(BodyStep /\ sample' = "nan") =>
             /\ telemetry' = telemetry
             /\ iothubPublishTopic' = iothubPublishTopic
             /\ lastSend' = nowMs
             /\ pc' = "loop"]_vars
    /\ [](pc = "loop" /\ sample = "nan" /\ ticks < MaxTicks =>
             ENABLED (\E connectOk \in BOOLEAN : ensureIoTHubMqtt(connectOk)))

\* C13 witness: the first reading was NaN, nothing has been published, and
\* the next tick is under way.
C13_Witness ==
    /\ pc = "serve"
    /\ ticks = 1
    /\ sample = "nan"
    /\ telemetry.count = 0
    /\ iothubPublishTopic = Empty

\* The connections to the provisioning host attempted in this boot.
DpsAttempts == {i \in DOMAIN connLog : connLog[i].server = DPS_HOST}

\* C14: provisioning runs once per boot and, once it has returned success,
\* never again: no step goes back into the handshake, publishes a request or
\* changes assignedHub or deviceId; one connection to the provisioning host
\* and one registration request were made, and every hub connect attempt and
\* the telemetry topic use the assigned values.
C14_AssignmentReadOnly ==
    /\ [][(pc \in Returned) =>
             /\ pc' \in Returned
             /\ assignedHub' = assignedHub
             /\ deviceId' = deviceId
             /\ published' = published
             /\ rid' = rid]_vars
    /\ [](pc \in Returned =>
             /\ DpsAttempts = {1}
             /\ Cardinality({i \in DOMAIN published :
                               published[i].kind = "register"}) = 1
             /\ \A i \in DOMAIN connLog \ DpsAttempts :
                   /\ connLog[i].server = assignedHub
                   /\ connLog[i].clientId = deviceId
             /\ iothubPublishTopic \in {Empty, EventsTopic(deviceId)})

\* C14 witness: the hub connection was opened, lost and opened again and
\* telemetry was published, with the values provisioning assigned.
C14_Witness ==
    /\ pc = "serve"
    /\ Len(connLog) = 3
    /\ connLog[2].ok
    /\ telemetry.count = 1
    /\ assignedHub = HubB
    /\ deviceId = Dev2

\* C15: a key that does not decode from base64 gives the empty token, and no
\* connection is ever attempted with an empty token as password; with such a
\* key provisioning ends Failed without a connection attempt, a connection or
\* a request, and loop() is never reached.
C15_NoConnectWithEmptyToken ==
    /\ base64Decode(KeyBad).ok = FALSE
    /\ buildSasToken(dpsResource, KeyBad, Clock(nowMs) + SAS_TTL_SECS).empty
    /\ \A i \in DOMAIN connLog : ~connLog[i].pass.empty
    /\ ~base64Decode(deviceKey).ok =>
          /\ pc \in {"boot", "failed"}
          /\ connLog = Empty
          /\ published = Empty
          /\ ~mqtt.connected

\* C15 witness: the key did not decode and provisioning has ended Failed.
C15_Witness == pc = "failed" /\ deviceKey = KeyBad /\ connLog = Empty

\* C16: for a calibration with wet < dry and every reading, soilRawToPercent
\* gives a value in [0, 100], 0 at the dry bound and above, 100 at the wet
\* bound and below, and no larger reading gives a larger percent.
C16_SoilPercentClampedMonotonic ==
    (soilPct.done /\ SOIL_RAW_WET < SOIL_RAW_DRY) =>
        /\ soilPct.den > 0
        /\ 0 <= soilPct.num /\ soilPct.num <= 100 * soilPct.den
        /\ soilRaw >= SOIL_RAW_DRY => soilPct.num = 0
        /\ soilRaw <= SOIL_RAW_WET => soilPct.num = 100 * soilPct.den
        /\ \A r \in RawReadings :
              r >= soilRaw =>
                 soilRawToPercent(r).num * soilPct.den
                    <= soilPct.num * soilRawToPercent(r).den

\* C16 witness: a reading below the wet bound of the configured calibration
\* was converted, to 100 percent.
C16_Witness ==
    /\ soilPct.done
    /\ SOIL_RAW_DRY = SoilDryDefault
    /\ SOIL_RAW_WET = SoilWetDefault
    /\ soilRaw = 600
    /\ soilPct.num = 100 * soilPct.den

\* The 1-based places where patt occurs in s.
Occurrences(s, patt) ==
    { i \in 1 .. Len(s) - Len(patt) + 1 : SubSeq(s, i, i + Len(patt) - 1) = patt }

\* s from its n-th symbol on.
From(s, n) == SubSeq(s, n, Len(s))

\* t is a run of consecutive symbols of s.
PartOf(t, s) ==
    t = Empty \/ \E a \in 1 .. Len(s) : \E b \in a .. Len(s) : t = SubSeq(s, a, b)

\* C17: jsonGet returns the empty string when the text does not hold
\* "<key>":" or when no quote follows the pattern's first occurrence, and
\* otherwise exactly the symbols between that occurrence and the next quote;
\* jsonGetNested returns the empty string when "<parentKey>":{ is not in the
\* text, and what it returns is always a part of the text.
C17_JsonGetContract ==
    jsonOut.done =>
        LET patt   == <<"\"", jsonKey, "\"", ":", "\"">>
            parent == <<"\"", jsonParent, "\"", ":", "{">>
            occ    == Occurrences(jsonText, patt)
        IN  /\ occ = {} => jsonOut.get = Empty
            /\ occ # {} =>
                  LET first == CHOOSE i \in occ : \A j \in occ : i <= j
                      rest  == From(jsonText, first + Len(patt))
                      quots == { n \in 1 .. Len(rest) : rest[n] = "\"" }
                  IN  /\ quots = {} => jsonOut.get = Empty
                      /\ quots # {} =>
                            jsonOut.get =
                               SubSeq(rest, 1,
                                      (CHOOSE n \in quots : \A m \in quots : n <= m) - 1)
            /\ Occurrences(jsonText, parent) = {} => jsonOut.nested = Empty
            /\ PartOf(jsonOut.get, jsonText)
            /\ PartOf(jsonOut.nested, jsonText)

\* C17 witness: the key's value was read out of the parent's object and out
\* of the whole text.
C17_Witness ==
    /\ jsonOut.done
    /\ jsonText = <<"\"", "p", "\"", ":", "{", "\"", "k", "\"", ":", "\"", "v", "\"", "}">>
    /\ jsonOut.nested = <<"v">>
    /\ jsonOut.get = <<"v">>

\* C18: every request published in the handshake carries, in its topic, a
\* request id strictly greater than that of every request published before
\* it, so no two requests share one.
C18_RequestIdsIncrease ==
    \A j \in DOMAIN published :
        /\ published[j].topic[2] = ToString(published[j].rid)
        /\ \A i \in 1 .. (j - 1) : published[i].rid < published[j].rid

\* C18 witness: the registration request and all twenty polls were published,
\* the last with request id 21.
C18_Witness ==
    /\ Len(published) = MAX_POLLS + 1
    /\ published[1].kind = "register"
    /\ published[MAX_POLLS + 1].kind = "poll"
    /\ published[MAX_POLLS + 1].rid = MAX_POLLS + 1

\* C19: the operationId is set only by a step of the first-response wait that
\* reads a 202 reply, to the operationId of that reply; every status poll
\* published carries that operationId, which is not empty, at the end of its
\* topic; and a 202 reply without an operationId ends the handshake failed,
\* with no poll published.
C19_PollsCarryOperationId ==
    /\ [](\A i \in DOMAIN published :
             published[i].kind = "poll" =>
                /\ operationId # Empty
                /\ published[i].operationId = operationId
                /\ SubSeq(published[i].topic, 4, Len(published[i].topic))
                      = operationId)
    /\ [][(operationId' # operationId /\ operationId' # Empty) =>
             /\ FirstReplyStep
             /\ wire[1].code = 202
             /\ operationId' = wire[1].body.op]_vars
    /\ [][(FirstReplyStep /\ RegWaiting(nowMs, t0) /\ wire[1].code = 202
             /\ wire[1].body.op = Empty) =>
             /\ pc' = "failed"
             /\ published' = published]_vars
    /\ [](pc = "failed" /\ operationId = Empty => Polls = 0)

\* C19 witness: a poll carrying the operationId of the 202 reply has been
\* published.
C19_Witness ==
    /\ Polls > 0
    /\ operationId = Op1
    /\ published[Len(published)].operationId = Op1

\* The handshake waits: the first-response wait or an attempt's reply wait
\* with time left, or the back-off between attempts.
Waiting ==
    \/ pc = "regWait" /\ RegWaiting(nowMs, t0)
    \/ pc = "pollWait" /\ PollWaiting(nowMs, t1)
    \/ pc = "backoff"

\* C20: the handshake never waits without servicing the receive path: a step
\* taken from a waiting state with a reply of the service in the socket
\* receives that reply and hands it to the handshake, so that it is observed
\* before the next request is published.
C20_ReplyObservedBeforeNextRequest ==
    [][(Waiting /\ wire # Empty /\ mqtt.connected) =>
          /\ wire' = Empty
          /\ dpsLastTopic' = wire[1].topic
          /\ dpsLastPayload' = wire[1].payload]_vars

\* C21: in Assigning, the step that reads a 200 reply whose status is not
\* "assigned" does not fail the handshake: it ends the attempt, publishing
\* nothing and leaving the assignment alone; the back-off that follows takes
\* 1.5 s, and after it the next poll is published as long as fewer than 20
\* polls have been.
C21_NotAssignedPollsOn ==
    [][/\ (PollReplyStep /\ PollWaiting(nowMs, t1) /\ wire[1].code = 200
              /\ wire[1].body.status # <<"assigned">>) =>
             /\ pc' = "backoff"
             /\ lastOutcome' = "reply"
             /\ UNCHANGED <<published, assignedHub, deviceId, tries, mqtt>>
       /\ (pc = "backoff" /\ lastOutcome = "reply" /\ pc' # pc) =>
             /\ nowMs' = nowMs + POLL_BACKOFF_MS
             /\ pc' = IF Polls < MAX_POLLS THEN "pollPublish" ELSE "failed"
       /\ (pc = "pollPublish" /\ lastOutcome = "reply" /\ pc' # pc) =>
             /\ Polls' = Polls + 1
             /\ published'[Len(published')].kind = "poll"
             /\ nowMs' = nowMs]_vars

\* C21 witness: a 200 reply with status "assigning" ended the first attempt
\* and the second poll was published, 1.5 s after the reply was read.
C21_Witness ==
    /\ pc = "pollWait"
    /\ Polls = 2
    /\ nowMs = t1
    /\ topicStatusCode(dpsLastTopic) = 200
    /\ jsonGet(dpsLastPayload, "status") = <<"assigning">>

\* The hub session was up in this boot and is lost: loop() is about to be
\* called with the client disconnected.
Lost ==
    /\ pc = "loop"
    /\ ~mqtt.connected
    /\ \E i \in DOMAIN connLog : connLog[i].server # DPS_HOST /\ connLog[i].ok

\* The calls of loop() followed have all been made.
Horizon == ticks = MaxTicks

\* C22: a lost session is seen as disconnected by the next call of loop(),
\* which makes a connect attempt to the assigned hub; a failed attempt is
\* followed by the back-off and the next call of loop(); a tick whose
\* connection is up publishes the valid reading that is due; and, loop()
\* being called again and again, a lost session leads to a Connected one
\* unless every attempt made in the calls followed has failed.
C22_LostSessionRecovers ==
    /\ [][/\ (Lost /\ pc' # pc) =>
               /\ Len(connLog') = Len(connLog) + 1
               /\ connLog'[Len(connLog')].server = assignedHub
               /\ connLog'[Len(connLog')].ok = mqtt'.connected
               /\ pc' = IF mqtt'.connected THEN "serve" ELSE "retryDelay"
          /\ (pc = "retryDelay" /\ pc' # pc) => (pc' = "loop" /\ ~mqtt'.connected)
          /\ (BodyStep /\ mqtt'.connected /\ Due(nowMs, lastSend)
                /\ sample' = "valid") =>
               /\ telemetry'.count = telemetry.count + 1
               /\ telemetry'.ok
               /\ telemetry'.server = assignedHub]_vars
    /\ (Lost ~> (Connected \/ (Horizon /\ ~mqtt.connected)))

\* C22 witness: the session was lost, a connect attempt failed, the next one
\* succeeded and a reading was published over the new connection.
C22_Witness ==
    /\ Connected
    /\ Len(connLog) = 4
    /\ connLog[2].ok /\ ~connLog[3].ok /\ connLog[4].ok
    /\ telemetry.ok
    /\ telemetry.ts >= connLog[4].at

\* C23: a call of loop() whose interval test passes takes one reading and
\* sets lastSend to the clock whether the reading is skipped, published or
\* its publish fails; a call whose interval test fails takes no reading,
\* publishes nothing and leaves lastSend alone; a call publishes at most
\* once, the reading it took itself; so two publishes are at least
\* SEND_INTERVAL_MS apart and a reading that was skipped or whose publish
\* failed is never sent later.
C23_NoRetryWithinInterval ==
    /\ [][BodyStep =>
             /\ Due(nowMs, lastSend) =>
                   /\ sample' \in {"valid", "nan"}
                   /\ lastSend' = nowMs
             /\ ~Due(nowMs, lastSend) =>
                   /\ sample' = "none"
                   /\ lastSend' = lastSend
                   /\ telemetry' = telemetry
             /\ telemetry'.count <= telemetry.count + 1
             /\ telemetry'.count > telemetry.count =>
                   /\ sample' = "valid"
                   /\ telemetry'.ts = Clock(nowMs)
                   /\ telemetry.count > 0 =>
                        telemetry'.ts >= telemetry.ts + SEND_INTERVAL_MS \div 1000]_vars
    /\ [](pc \in Returned => lastSend <= nowMs)

\* C23 witness: the publish of the first reading failed and the call of
\* loop() that followed, a short call later, took no reading and published
\* nothing.
C23_Witness ==
    /\ pc = "loop"
    /\ ticks = 2
    /\ mqtt.connected
    /\ telemetry.count = 1
    /\ ~telemetry.ok
    /\ sample = "none"
    /\ nowMs - lastSend = 2 * ShortMs

\* The hub connect attempts of this boot.
HubAttempts == {i \in DOMAIN connLog : connLog[i].server # DPS_HOST}

\* C24: loop() runs only after a handshake that ended Assigned: whenever
\* setup() has returned, assignedHub and deviceId are both non-empty; every
\* hub connect attempt and every telemetry publish was made then, with those
\* values; and a Failed handshake is followed by the restart alone, which
\* leaves nothing of the failed attempt behind.
C24_TickOnlyWhenAssigned ==
    /\ [](pc \in Returned => (assignedHub # Empty /\ deviceId # Empty))
    /\ [](\A i \in HubAttempts :
             /\ pc \in Returned
             /\ connLog[i].server = assignedHub
             /\ connLog[i].clientId = deviceId)
    /\ [](telemetry.count > 0 =>
             /\ pc \in Returned
             /\ telemetry.topic = EventsTopic(deviceId)
             /\ telemetry.server = assignedHub)
    /\ [](pc \in {"boot", "regWait", "pollPublish", "pollWait", "backoff", "failed"} =>
             /\ HubAttempts = {}
             /\ telemetry = NoTelemetry
             /\ ticks = 0)
    /\ [][pc = "failed" =>
             /\ pc' = "boot"
             /\ assignedHub' = Empty
             /\ deviceId' = Empty
             /\ connLog' = Empty]_vars

\* C24 witness: a 200 reply without deviceId overwrote deviceId with the
\* empty string while the hub was set, and the handshake then failed.
C24_Witness ==
    /\ pc = "failed"
    /\ assignedHub # Empty
    /\ deviceId = Empty

\* C25: when the handshake returns success the client is disconnected, still
\* pointed at the provisioning host; the first call of ensureIoTHubMqtt finds
\* it so, points it at the assigned hub and attempts the connection; from
\* then on the client is pointed at the assigned hub, and every telemetry
\* publish went over it, none to the provisioning host.
C25_ProvisioningConnectionClosed ==
    /\ [](pc = "assigned" => (~mqtt.connected /\ mqtt.server = DPS_HOST))
    /\ [][(EnsureStep /\ HubAttempts = {}) =>
             /\ ~mqtt.connected
             /\ mqtt.server = DPS_HOST
             /\ HubAttempts' = {Len(connLog) + 1}
             /\ mqtt'.server = assignedHub
             /\ mqtt'.callback = "none"]_vars
    /\ [](pc \in {"serve", "retryDelay"} => mqtt.server = assignedHub)
    /\ [](mqtt.connected /\ pc \in Returned => mqtt.server = assignedHub)
    /\ [](telemetry.count > 0 =>
             (telemetry.server = assignedHub /\ telemetry.server # DPS_HOST))

\* C25 witness: setup() has returned after a successful handshake, the
\* client disconnected from the provisioning host and no hub connection
\* attempted yet.
C25_Witness ==
    /\ SessionInit
    /\ ~mqtt.connected
    /\ mqtt.server = DPS_HOST
    /\ HubAttempts = {}

\* C26: no telemetry publish is attempted while the session is disconnected:
\* a call of loop() that publishes does so over a connection that is up after
\* its mqtt.loop(), also when mqtt.loop() found that the server had dropped
\* the connection.
C26_NoPublishWhileDisconnected ==
    [][(BodyStep /\ telemetry'.count > telemetry.count) => mqtt'.connected]_vars

\* C27: the three elapsed-time tests depend only on the time that has passed
\* since the timer was started, also when the 32-bit counter has wrapped in
\* between: the first-response wait goes on exactly while fewer than 20000 ms
\* have passed, an attempt's wait while fewer than 5000 ms have, and a
\* reading is due exactly once SEND_INTERVAL_MS have.
C27_ElapsedTestsSurviveWrap ==
    timerOut.done =>
        /\ timerOut.reg = (timerElapsed < REG_TIMEOUT_MS)
        /\ timerOut.poll = (timerElapsed < POLL_TIMEOUT_MS)
        /\ timerOut.due = (timerElapsed >= SEND_INTERVAL_MS)

\* C27 witness: a timer started 3 ms before the counter wrapped was tested
\* when exactly 20000 ms had passed, after the wrap: the first-response wait
\* is over and a reading is due.
C27_Witness ==
    /\ timerOut.done
    /\ timerStart = -MaxBefore
    /\ timerElapsed = REG_TIMEOUT_MS
    /\ millisAfter(timerStart, timerElapsed) > 0
    /\ ~timerOut.reg
    /\ ~timerOut.poll
    /\ timerOut.due

====
